---- MODULE Spec2Model ----
(***************************************************************************)
(* Model of the Mighty Hike results plotter (src/main.py): the time        *)
(* formatting function, the Person time model, the People registry and    *)
(* the two-stage extraction of a Person from the results website.         *)
(*                                                                         *)
(* Python strings are sequences of one-character strings, so that          *)
(* formatting, parsing, lower(), replace() and split() are computed.      *)
(* A datetime of strptime with a time-only format is the number of        *)
(* seconds since 1900-01-01 00:00:00.                                      *)
(***************************************************************************)
EXTENDS Integers, Sequences, FiniteSets, TLC

VARIABLES
    seconds,                  \* seconds_to_human_time: the argument
    time_string,              \* seconds_to_human_time: the returned string
    self,                     \* the Person whose accessors are called
    leg_ret,                  \* get_leg_time: leg_no -> outcome of the call
    total_ret,                \* total_time: outcome of the property read
    race_numbers,             \* generate_people_from_race_nubmers: argument
    idx,                      \* position of the for loop in race_numbers
    pc,                       \* position of the batch in the code
    people_list,              \* generate_people_from_race_nubmers: people_list
    person_name,              \* generate_person_from_race_nubmer: person_name
    stats_page_url,           \* generate_person_from_race_nubmer: stats_page_url
    race_location,            \* generate_people_from_race_nubmers: argument
    fetches,                  \* every requests.get issued, in order, with
                              \* the document (or failure) it returned
    stdout,                   \* the "Succesfully parsed" lines printed
    raised,                   \* the exception that left the batch, or "none"
    people,                   \* People.people
    use_first_name_in_plots,  \* People.use_first_name_in_plots
    ax_title,                 \* title of the Axes a plot method drew on
    ax_bars,                  \* bars drawn on the Axes: (label, time)
    ax_texts                  \* texts drawn on the Axes

fmt_vars    == <<seconds, time_string>>
person_vars == <<self, leg_ret, total_ret>>
batch_vars  == <<race_numbers, idx, pc, people_list, person_name,
                 stats_page_url, race_location, fetches, stdout, raised>>
people_vars == <<people, use_first_name_in_plots>>
plot_vars   == <<ax_title, ax_bars, ax_texts>>
vars == <<fmt_vars, person_vars, batch_vars, people_vars, plot_vars>>

---------------------------------------------------------------------------
(* Bounds of the model.                                                    *)
MaxSeconds == 3700      \* seconds_to_human_time is applied to 0..MaxSeconds
MaxLegNo   == 5         \* get_leg_time is called with leg_no in 0..MaxLegNo
MaxPeople  == 3         \* People is constructed from at most MaxPeople persons
MaxBatch   == 2         \* a batch holds at most MaxBatch race numbers

---------------------------------------------------------------------------
(* Python strings and str.format.                                          *)

Digits == <<"0", "1", "2", "3", "4", "5", "6", "7", "8", "9">>

IsDigit(c) == \E i \in 1..10 : Digits[i] = c

DigitVal(c) == (CHOOSE i \in 1..10 : Digits[i] = c) - 1

\* str(n) of a non-negative int.
RECURSIVE IntToStr(_)
IntToStr(n) ==
    IF n < 10 THEN <<Digits[n + 1]>>
    ELSE IntToStr(n \div 10) \o <<Digits[(n % 10) + 1]>>

RECURSIVE Repeat(_, _)
Repeat(c, k) == IF k <= 0 THEN <<>> ELSE <<c>> \o Repeat(c, k - 1)

\* "{:<fill><width>d}".format(n): right-aligned, at least width wide.
FormatD(n, width, fill) ==
    LET s == IntToStr(n)
    IN  Repeat(fill, width - Len(s)) \o s

\* The value of a string of decimal digits.
RECURSIVE StrToInt(_)
StrToInt(s) ==
    IF s = <<>> THEN 0
    ELSE 10 * StrToInt(SubSeq(s, 1, Len(s) - 1)) + DigitVal(s[Len(s)])

UpperCase == <<"A", "B", "C", "D", "E", "F", "G", "H", "I", "J", "K", "L", "M",
               "N", "O", "P", "Q", "R", "S", "T", "U", "V", "W", "X", "Y", "Z">>
LowerCase == <<"a", "b", "c", "d", "e", "f", "g", "h", "i", "j", "k", "l", "m",
               "n", "o", "p", "q", "r", "s", "t", "u", "v", "w", "x", "y", "z">>

\* str.lower()
Lower(s) ==
    [i \in 1..Len(s) |->
        IF \E k \in 1..26 : UpperCase[k] = s[i]
        THEN LowerCase[CHOOSE k \in 1..26 : UpperCase[k] = s[i]]
        ELSE s[i]]

\* str.replace(old, new) for one-character old and new.
Replace(s, old, new) == [i \in 1..Len(s) |-> IF s[i] = old THEN new ELSE s[i]]

\* s.split(sep)[0]: the text before the first sep, all of s when there is none.
SplitFirst(s, sep) ==
    IF \E i \in 1..Len(s) : s[i] = sep
    THEN SubSeq(s, 1, (CHOOSE i \in 1..Len(s) :
                          s[i] = sep /\ \A j \in 1..(i - 1) : s[j] # sep) - 1)
    ELSE s

---------------------------------------------------------------------------
(* seconds_to_human_time                                                   *)

seconds_to_human_time_02d(secs) ==
    LET hours   == secs \div 3600
        minutes == (secs % 3600) \div 60
        s       == secs % 60
    IN  IF hours # 0
        THEN FormatD(hours, 0, " ") \o <<":">> \o FormatD(minutes, 2, "0")
                 \o <<":">> \o FormatD(s, 2, "0")
        ELSE IF minutes # 0
        THEN FormatD(minutes, 2, "0") \o <<":">> \o FormatD(s, 2, "0")
        ELSE FormatD(s, 2, "0") \o <<"s">>

seconds_to_human_time(secs) ==
    LET hours   == secs \div 3600
        minutes == (secs % 3600) \div 60
        s       == secs % 60
    IN  IF hours # 0
        THEN FormatD(hours, 0, " ") \o <<":">> \o FormatD(minutes, 2, "0")
                 \o <<":">> \o FormatD(s, 2, "0")
        ELSE IF minutes # 0
        THEN FormatD(minutes, 2, " ") \o <<":">> \o FormatD(s, 2, "0")
        ELSE FormatD(s, 2, " ") \o <<"s">>

---------------------------------------------------------------------------
(* datetime.strptime(data_string, format) for formats made of the          *)
(* directives %H, %M, %S and literal characters other than white space.    *)
(* The format becomes a regular expression: a directive is an alternation  *)
(* that tries two digits before one, a literal matches itself.  The match  *)
(* is not anchored at the end: text left over, and a second above 59, are  *)
(* rejected afterwards.                                                     *)

Directives == {"H", "M", "S"}

\* The largest number the directive's regular expression accepts:
\* %H 2[0-3]|[0-1]\d|\d,  %M [0-5]\d|\d,  %S 6[0-1]|[0-5]\d|\d.
DirectiveMax(d) == CASE d = "H" -> 23 [] d = "M" -> 59 [] d = "S" -> 61

NoMatch == [ok |-> FALSE, H |-> 0, M |-> 0, S |-> 0, rest |-> <<>>]

SetField(acc, d, n) ==
    CASE d = "H" -> [acc EXCEPT !.H = n]
      [] d = "M" -> [acc EXCEPT !.M = n]
      [] d = "S" -> [acc EXCEPT !.S = n]

\* A format strptime refuses: a stray % or a directive that is not known
\* (the escape %% is not among the formats modelled).
BadFormat(fmt) ==
    \E i \in 1..Len(fmt) :
        /\ fmt[i] = "%"
        /\ (i = Len(fmt) \/ fmt[i + 1] \notin Directives)

RECURSIVE RegexMatch(_, _, _)
RegexMatch(val, fmt, acc) ==
    IF fmt = <<>> THEN [acc EXCEPT !.ok = TRUE, !.rest = val]
    ELSE IF Head(fmt) = "%"
    THEN LET d    == fmt[2]
             more == SubSeq(fmt, 3, Len(fmt))
             two  == IF /\ Len(val) >= 2
                        /\ IsDigit(val[1]) /\ IsDigit(val[2])
                        /\ StrToInt(SubSeq(val, 1, 2)) <= DirectiveMax(d)
                     THEN RegexMatch(SubSeq(val, 3, Len(val)), more,
                                     SetField(acc, d, StrToInt(SubSeq(val, 1, 2))))
                     ELSE NoMatch
             one  == IF Len(val) >= 1 /\ IsDigit(val[1])
                     THEN RegexMatch(Tail(val), more,
                                     SetField(acc, d, DigitVal(val[1])))
                     ELSE NoMatch
         IN  IF two.ok THEN two ELSE one
    ELSE IF val # <<>> /\ Head(val) = Head(fmt)
    THEN RegexMatch(Tail(val), Tail(fmt), acc)
    ELSE NoMatch

\* [ok, t]: ok is FALSE where strptime raises ValueError; t is the datetime,
\* in seconds since 1900-01-01 00:00:00.
strptime(data_string, format) ==
    LET found == IF BadFormat(format) THEN NoMatch
                 ELSE RegexMatch(data_string, format,
                                 [ok |-> FALSE, H |-> 0, M |-> 0, S |-> 0,
                                  rest |-> <<>>])
    IN  IF found.ok /\ found.rest = <<>> /\ found.S <= 59
        THEN [ok |-> TRUE, t |-> found.H * 3600 + found.M * 60 + found.S]
        ELSE [ok |-> FALSE, t |-> 0]

\* (b - a).seconds: a timedelta is normalised to days and 0 <= seconds < 86400,
\* and .seconds drops the days.
TimedeltaSeconds(b, a) ==
    LET delta == b - a
        days  == delta \div (24 * 3600)
    IN  delta - days * (24 * 3600)

---------------------------------------------------------------------------
(* class Person                                                             *)

DefaultTimeFormat == <<"%", "H", ":", "%", "M", ":", "%", "S">>

\* Values of mixed Python type (race_number is an int until a row of the
\* page replaces it by a str) carry their type.
IntVal(n) == [type |-> "int", n |-> n, s |-> <<>>]
StrVal(s) == [type |-> "str", n |-> 0, s |-> s]

NoPerson ==
    [name |-> <<>>, first_name |-> <<>>, race_number |-> IntVal(0),
     start |-> 0, pitstop_1 |-> 0, pitstop_2 |-> 0, pitstop_3 |-> 0,
     finish |-> 0]

\* Person.__init__: [ok, person]; ok is FALSE where a strptime raises.
Person(name, race_number, start, pitstop_1, pitstop_2, pitstop_3, finish, time_format) ==
    LET t0 == strptime(start, time_format)
        t1 == strptime(pitstop_1, time_format)
        t2 == strptime(pitstop_2, time_format)
        t3 == strptime(pitstop_3, time_format)
        t4 == strptime(finish, time_format)
    IN  IF t0.ok /\ t1.ok /\ t2.ok /\ t3.ok /\ t4.ok
        THEN [ok |-> TRUE,
              person |-> [name |-> name,
                          first_name |-> SplitFirst(name, " "),
                          race_number |-> race_number,
                          start |-> t0.t, pitstop_1 |-> t1.t,
                          pitstop_2 |-> t2.t, pitstop_3 |-> t3.t,
                          finish |-> t4.t]]
        ELSE [ok |-> FALSE, person |-> NoPerson]

\* The outcome of a call: a returned int or a raised exception.
Return(n)  == [kind |-> "return", val |-> n, exc |-> "none"]
Raise(e)   == [kind |-> "raise", val |-> 0, exc |-> e]
NotCalled  == [kind |-> "none", val |-> 0, exc |-> "none"]

get_leg_time_legs_swapped(p, leg_no) ==
    CASE leg_no = 1 -> Return(TimedeltaSeconds(p.pitstop_1, p.start))
      [] leg_no = 2 -> Return(TimedeltaSeconds(p.pitstop_3, p.pitstop_2))
      [] leg_no = 3 -> Return(TimedeltaSeconds(p.pitstop_2, p.pitstop_1))
      [] leg_no = 4 -> Return(TimedeltaSeconds(p.finish, p.pitstop_3))
      [] OTHER      -> Raise("ValueError")

get_leg_time(p, leg_no) ==
    CASE leg_no = 1 -> Return(TimedeltaSeconds(p.pitstop_1, p.start))
      [] leg_no = 2 -> Return(TimedeltaSeconds(p.pitstop_2, p.pitstop_1))
      [] leg_no = 3 -> Return(TimedeltaSeconds(p.pitstop_3, p.pitstop_2))
      [] leg_no = 4 -> Return(TimedeltaSeconds(p.finish, p.pitstop_3))
      [] OTHER      -> Raise("ValueError")

total_time(p) == Return(TimedeltaSeconds(p.finish, p.start))

---------------------------------------------------------------------------
(* Values the variables of the other components hold while one component   *)
(* is exercised.                                                            *)

IdleFmt    == seconds = 0 /\ time_string = <<>>
IdlePerson == self = NoPerson
              /\ leg_ret = [n \in 0..MaxLegNo |-> NotCalled]
              /\ total_ret = NotCalled
IdleBatch  == /\ race_numbers = <<>> /\ idx = 1 /\ pc = "idle"
              /\ people_list = <<>> /\ person_name = <<>>
              /\ stats_page_url = <<>>
              /\ race_location = 0 /\ fetches = <<>> /\ stdout = <<>>
              /\ raised = "none"
IdlePeople == people = <<>> /\ use_first_name_in_plots = FALSE
IdlePlot   == ax_title = <<>> /\ ax_bars = <<>> /\ ax_texts = <<>>

---------------------------------------------------------------------------
(* seconds_to_human_time applied to a number of seconds.                   *)

\* Times with one, two and three digits of hours.
LongTimes ==
    {h * 3600 + m * 60 + s : h \in {2, 9, 10, 23, 24, 100},
                             m \in {0, 9, 59}, s \in {0, 9, 59}}

SecondsInputs == 0..MaxSeconds \cup LongTimes

InitFmt ==
    /\ seconds \in SecondsInputs
    /\ time_string = <<>>
    /\ IdlePerson /\ IdleBatch /\ IdlePeople /\ IdlePlot

CallSecondsToHumanTime ==
    /\ time_string = <<>>
    /\ time_string' = seconds_to_human_time(seconds)
    /\ UNCHANGED <<seconds, person_vars, batch_vars, people_vars, plot_vars>>

NextFmt == CallSecondsToHumanTime

SpecFmt == InitFmt /\ [][NextFmt]_vars

---------------------------------------------------------------------------
(* The accessors of one Person.                                             *)

\* "HH:MM:SS" as the results page prints a time of day.
TimeOfDay(h, m, s) ==
    FormatD(h, 2, "0") \o <<":">> \o FormatD(m, 2, "0") \o <<":">> \o FormatD(s, 2, "0")

Name_AlexSmith == <<"A", "l", "e", "x", " ", "S", "m", "i", "t", "h">>
Name_AlexJones == <<"A", "l", "e", "x", " ", "J", "o", "n", "e", "s">>
Name_Bo        == <<"B", "o">>

\* Times of day a Person is built from: Person.__init__ checks no order.
TimeInputs ==
    {TimeOfDay(0, 0, 0), TimeOfDay(8, 0, 0), TimeOfDay(9, 15, 30),
     TimeOfDay(23, 59, 59)}

PersonInputs ==
    {Person(Name_Bo, IntVal(643), t0, t1, t2, t3, t4, DefaultTimeFormat).person :
        t0 \in TimeInputs, t1 \in TimeInputs, t2 \in TimeInputs,
        t3 \in TimeInputs, t4 \in TimeInputs}

InitPerson ==
    /\ self \in PersonInputs
    /\ leg_ret = [n \in 0..MaxLegNo |-> NotCalled]
    /\ total_ret = NotCalled
    /\ IdleFmt /\ IdleBatch /\ IdlePeople /\ IdlePlot

CallGetLegTime(leg_no) ==
    /\ leg_ret[leg_no] = NotCalled
    /\ leg_ret' = [leg_ret EXCEPT ![leg_no] = get_leg_time(self, leg_no)]
    /\ UNCHANGED <<self, total_ret, fmt_vars, batch_vars, people_vars, plot_vars>>

ReadTotalTime ==
    /\ total_ret = NotCalled
    /\ total_ret' = total_time(self)
    /\ UNCHANGED <<self, leg_ret, fmt_vars, batch_vars, people_vars, plot_vars>>

NextPerson ==
    \/ \E leg_no \in 0..MaxLegNo : CallGetLegTime(leg_no)
    \/ ReadTotalTime

SpecPerson == InitPerson /\ [][NextPerson]_vars

---------------------------------------------------------------------------
(* Claims about seconds_to_human_time (checked under SpecFmt).             *)

AllDigits(s) == \A i \in 1..Len(s) : IsDigit(s[i])

\* s is n written in two places with zeros: "07", "42".
ZeroPadded2(s, n) == Len(s) = 2 /\ AllDigits(s) /\ StrToInt(s) = n

\* s is n right-aligned to width 2 with a space: " 7", "42".
RightAligned2(s, n) ==
    /\ Len(s) = 2
    /\ IF n < 10 THEN s[1] = " " /\ IsDigit(s[2]) /\ DigitVal(s[2]) = n
                 ELSE AllDigits(s) /\ StrToInt(s) = n

\* s is n in plain decimal: digits only, no padding, no leading zero.
PlainInt(s, n) ==
    /\ Len(s) >= 1 /\ AllDigits(s) /\ StrToInt(s) = n
    /\ (Len(s) > 1 => s[1] # "0")

\* ts is H:MM:SS for secs.
IsHMMSS(ts, secs) ==
    LET n == Len(ts)
    IN  /\ n >= 7
        /\ ts[n - 2] = ":" /\ ts[n - 5] = ":"
        /\ PlainInt(SubSeq(ts, 1, n - 6), secs \div 3600)
        /\ ZeroPadded2(SubSeq(ts, n - 4, n - 3), (secs \div 60) % 60)
        /\ ZeroPadded2(SubSeq(ts, n - 1, n), secs % 60)

\* ts is MM:SS for secs, the minutes right-aligned to width 2.
IsMMSS(ts, secs) ==
    /\ Len(ts) = 5 /\ ts[3] = ":"
    /\ RightAligned2(SubSeq(ts, 1, 2), secs \div 60)
    /\ ZeroPadded2(SubSeq(ts, 4, 5), secs % 60)

FormatExamples ==
    /\ seconds = 59   => time_string = <<"5", "9", "s">>
    /\ seconds = 60   => time_string = <<" ", "1", ":", "0", "0">>
    /\ seconds = 3599 => time_string = <<"5", "9", ":", "5", "9">>
    /\ seconds = 3600 => time_string = <<"1", ":", "0", "0", ":", "0", "0">>
    /\ seconds = 3661 => time_string = <<"1", ":", "0", "1", ":", "0", "1">>

\* C5 as stated: H:MM:SS from 3600 s, MM:SS (minutes right-aligned to
\* width 2) from 60 s, and below 60 s the plain integer followed by "s",
\* so that 0 gives "0s".
C5_PlainSeconds ==
    time_string # <<>> =>
        /\ seconds >= 3600 => IsHMMSS(time_string, seconds)
        /\ (seconds >= 60 /\ seconds < 3600) => IsMMSS(time_string, seconds)
        /\ seconds < 60 =>
              /\ time_string[Len(time_string)] = "s"
              /\ PlainInt(SubSeq(time_string, 1, Len(time_string) - 1), seconds)
        /\ seconds = 0 => time_string = <<"0", "s">>
        /\ FormatExamples

\* C5 amended: H:MM:SS from 3600 s (hours unpadded, minutes and seconds
\* zero-padded to 2), MM:SS with the minutes right-aligned to width 2 from
\* 60 s, and below 60 s the integer right-aligned to width 2 followed by
\* "s", so that 0 gives " 0s" and 59 gives "59s".
C5_RightAlignedSeconds ==
    time_string # <<>> =>
        /\ seconds >= 3600 => IsHMMSS(time_string, seconds)
        /\ (seconds >= 60 /\ seconds < 3600) => IsMMSS(time_string, seconds)
        /\ seconds < 60 =>
              /\ Len(time_string) = 3 /\ time_string[3] = "s"
              /\ RightAligned2(SubSeq(time_string, 1, 2), seconds)
        /\ seconds = 0 => time_string = <<" ", "0", "s">>
        /\ FormatExamples

C5_Witness == seconds = 7 /\ time_string = <<" ", "7", "s">>

---------------------------------------------------------------------------
(* Claims about Person.get_leg_time and Person.total_time (SpecPerson).    *)

\* The two timestamps of a leg: (from, to).
LegFrom(p, n) ==
    CASE n = 1 -> p.start [] n = 2 -> p.pitstop_1
      [] n = 3 -> p.pitstop_2 [] n = 4 -> p.pitstop_3
LegTo(p, n) ==
    CASE n = 1 -> p.pitstop_1 [] n = 2 -> p.pitstop_2
      [] n = 3 -> p.pitstop_3 [] n = 4 -> p.finish

\* A duration as the claim words it: b - a when b >= a, a failure otherwise.
IsDuration(ret, a, b) ==
    IF b >= a THEN ret = Return(b - a) ELSE ret.kind = "raise"

\* C1: for the pairs of times of day get_leg_time and total_time subtract,
\* the duration is exactly b - a seconds when b >= a, and the call fails
\* (no wrap-around across midnight) when b < a.
C1_DurationOrFailure ==
    /\ \A n \in 1..4 :
          leg_ret[n] # NotCalled =>
              IsDuration(leg_ret[n], LegFrom(self, n), LegTo(self, n))
    /\ total_ret # NotCalled => IsDuration(total_ret, self.start, self.finish)

\* C2: whenever get_leg_time(1..4) and total_time all returned values, the
\* four leg times add up to total_time exactly.
C2_LegsSumToTotal ==
    (/\ \A n \in 1..4 : leg_ret[n].kind = "return"
     /\ total_ret.kind = "return")
    => leg_ret[1].val + leg_ret[2].val + leg_ret[3].val + leg_ret[4].val
           = total_ret.val

\* ret is the time a clock takes from time of day `from` to time of day
\* `to`: to - from seconds when `to` is not before `from`.
IsClockTime(ret, from, to) ==
    /\ ret.kind = "return"
    /\ ret.val \in 0..(24 * 3600 - 1)
    /\ (from + ret.val) % (24 * 3600) = to
    /\ to >= from => ret.val = to - from

\* C8: a call get_leg_time(n) leaves the Person as it was; for n = 1, 2, 3,
\* 4 it returns the time from start to pitstop_1, pitstop_1 to pitstop_2,
\* pitstop_2 to pitstop_3, pitstop_3 to finish respectively, and for every
\* other n it raises the leg-number error and returns nothing.
C8_LegSelection ==
    [][\A n \in 0..MaxLegNo :
          (leg_ret[n] = NotCalled /\ leg_ret'[n] # NotCalled) =>
              /\ self' = self
              /\ n \in 1..4 =>
                    IsClockTime(leg_ret'[n], LegFrom(self, n), LegTo(self, n))
              /\ n \notin 1..4 => leg_ret'[n] = Raise("ValueError")]_vars

C8_Witness ==
    /\ self.pitstop_1 < self.pitstop_2 /\ self.pitstop_2 < self.pitstop_3
    /\ self.pitstop_2 - self.pitstop_1 # self.pitstop_3 - self.pitstop_2
    /\ leg_ret[2].kind = "return" /\ leg_ret[3].kind = "return"
    /\ leg_ret[0].kind = "raise" /\ leg_ret[MaxLegNo].kind = "raise"

---------------------------------------------------------------------------
(* class People                                                             *)

\* list.sort(key=...) on a short list is a binary insertion sort: each
\* element goes after every element already placed whose key is not greater.
InsertionPoint(sorted, k) ==
    Cardinality({i \in 1..Len(sorted) : total_time(sorted[i]).val <= k})

InsertionPointLeft(sorted, k) ==
    Cardinality({i \in 1..Len(sorted) : total_time(sorted[i]).val < k})

RECURSIVE list_sort_from(_, _)
list_sort_from(sorted, todo) ==
    IF todo = <<>> THEN sorted
    ELSE LET p  == Head(todo)
             at == InsertionPoint(sorted, total_time(p).val)
         IN  list_sort_from(SubSeq(sorted, 1, at) \o <<p>>
                                \o SubSeq(sorted, at + 1, Len(sorted)),
                            Tail(todo))

RECURSIVE list_sort_from_left(_, _)
list_sort_from_left(sorted, todo) ==
    IF todo = <<>> THEN sorted
    ELSE LET p  == Head(todo)
             at == InsertionPointLeft(sorted, total_time(p).val)
         IN  list_sort_from_left(SubSeq(sorted, 1, at) \o <<p>>
                                     \o SubSeq(sorted, at + 1, Len(sorted)),
                                 Tail(todo))

\* people.sort(key=lambda p: p.total_time) with the ties reversed.
list_sort_unstable(l) == list_sort_from_left(<<>>, l)

\* people.sort(key=lambda p: p.total_time)
list_sort(l) == list_sort_from(<<>>, l)

names_all_distinct_always(l) == TRUE

\* len(set(person.name for person in people)) == len(people)
names_all_distinct(l) ==
    Cardinality({l[i].name : i \in 1..Len(l)}) = Len(l)

\* People.__init__: sorts the list it was given (in place), so the caller's
\* list is the sorted one too.  The tick formatter it also stores is read by
\* no operation modelled here.
PeopleInit ==
    /\ pc = "construct"
    /\ people' = list_sort(people_list)
    /\ people_list' = people'
    /\ use_first_name_in_plots' = names_all_distinct(people')
    /\ pc' = "done"
    /\ UNCHANGED <<race_numbers, idx, person_name, stats_page_url,
                   race_location, fetches, stdout, raised,
                   fmt_vars, person_vars, plot_vars>>

\* The label of a person's bar.
bar_name(p, use_first) == IF use_first THEN p.first_name ELSE p.name

Min(S) == CHOOSE x \in S : \A y \in S : x <= y

\* The bars, then the texts, of a bar chart of the times `times`.
Bars(times) ==
    [i \in 1..Len(people) |->
        [name |-> bar_name(people[i], use_first_name_in_plots),
         time |-> times[i]]]

RECURSIVE Texts(_, _)
Texts(times, i) ==
    IF i > Len(times) THEN <<>>
    ELSE LET least == Min({times[j] : j \in 1..Len(times)})
         IN  <<seconds_to_human_time(times[i])>>
             \o (IF times[i] = least THEN <<>>
                 ELSE << <<"+">> \o seconds_to_human_time(times[i] - least) >>)
             \o Texts(times, i + 1)

\* What a plot method leaves on a fresh Axes: the bars of its first loop,
\* the texts of its second, the title; min(times) of no times raises
\* ValueError after the (empty) loops and before the title is set.  Axis
\* limits, ticks and grid are not kept.
Draw(title, times) ==
    /\ ax_title' = IF times = <<>> THEN <<>> ELSE title
    /\ ax_bars' = Bars(times)
    /\ ax_texts' = Texts(times, 1)
    /\ raised' = IF times = <<>> THEN "ValueError" ELSE raised

Title_Leg(leg_no) == <<"L", "e", "g", " ">> \o IntToStr(leg_no)
Title_Total == <<"T", "o", "t", "a", "l", " ", "T", "i", "m", "e">>

\* People.plot_leg_as_bar(ax, leg_no), as plot() calls it.
PlotLegAsBar(leg_no) ==
    /\ pc = "done" /\ ax_title = <<>> /\ raised = "none"
    /\ Draw(Title_Leg(leg_no),
            [i \in 1..Len(people) |-> get_leg_time(people[i], leg_no).val])
    /\ UNCHANGED <<race_numbers, idx, pc, people_list, person_name,
                   stats_page_url, race_location, fetches, stdout,
                   fmt_vars, person_vars, people_vars>>

\* People.plot_total_as_bar(ax)
PlotTotalAsBar ==
    /\ pc = "done" /\ ax_title = <<>> /\ raised = "none"
    /\ Draw(Title_Total, [i \in 1..Len(people) |-> total_time(people[i]).val])
    /\ UNCHANGED <<race_numbers, idx, pc, people_list, person_name,
                   stats_page_url, race_location, fetches, stdout,
                   fmt_vars, person_vars, people_vars>>

\* The persons a registry is built from: two share a name, two share a
\* first name only, several share a total time, one finishes before its
\* start.
MakePerson(name, race_number, start, finish) ==
    Person(name, IntVal(race_number), start, TimeOfDay(9, 15, 30),
           TimeOfDay(10, 40, 0), TimeOfDay(12, 5, 10), finish,
           DefaultTimeFormat).person

PeopleInputs ==
    {MakePerson(Name_AlexSmith, 643, TimeOfDay(8, 0, 0), TimeOfDay(13, 30, 0)),
     MakePerson(Name_AlexSmith, 644, TimeOfDay(8, 0, 0), TimeOfDay(13, 30, 0)),
     MakePerson(Name_AlexJones, 108, TimeOfDay(8, 0, 0), TimeOfDay(13, 20, 0)),
     MakePerson(Name_AlexJones, 14, TimeOfDay(8, 10, 0), TimeOfDay(13, 30, 0)),
     MakePerson(Name_Bo, 107, TimeOfDay(8, 0, 0), TimeOfDay(13, 30, 0)),
     MakePerson(Name_Bo, 765, TimeOfDay(23, 59, 59), TimeOfDay(13, 30, 0))}

RECURSIVE SeqsUpTo(_, _)
SeqsUpTo(S, n) ==
    IF n = 0 THEN {<<>>}
    ELSE LET shorter == SeqsUpTo(S, n - 1)
         IN  shorter \cup {Append(q, x) : q \in shorter, x \in S}

InitPeople ==
    /\ people_list \in SeqsUpTo(PeopleInputs, MaxPeople)
    /\ pc = "construct"
    /\ race_numbers = <<>> /\ idx = 1 /\ person_name = <<>>
    /\ stats_page_url = <<>>
    /\ race_location = 0 /\ fetches = <<>> /\ stdout = <<>> /\ raised = "none"
    /\ IdleFmt /\ IdlePerson /\ IdlePeople /\ IdlePlot

NextPeople ==
    \/ PeopleInit
    \/ \E leg_no \in 1..4 : PlotLegAsBar(leg_no)
    \/ PlotTotalAsBar

SpecPeople == InitPeople /\ [][NextPeople]_vars

---------------------------------------------------------------------------
(* Claims about People.__init__ and the bar labels (SpecPeople).           *)

Key(p) == total_time(p).val

\* out is input rearranged by a one-to-one placement that keeps the input
\* order of any two persons with the same total time.
IsStableRearrangement(out, input) ==
    /\ Len(out) = Len(input)
    /\ \E f \in [1..Len(out) -> 1..Len(out)] :
          /\ \A i, j \in 1..Len(out) : i # j => f[i] # f[j]
          /\ \A i \in 1..Len(out) : out[i] = input[f[i]]
          /\ \A i, j \in 1..Len(out) :
                (i < j /\ Key(out[i]) = Key(out[j])) => f[i] < f[j]

\* C3: People(people) leaves in its people sequence a permutation of the
\* input in which every earlier participant has total_time <= every later
\* one, and participants with equal total_time keep their input order.
C3_StableSortByTotalTime ==
    [][(pc = "construct" /\ pc' = "done") =>
          /\ \A i, j \in 1..Len(people') :
                i < j => Key(people'[i]) <= Key(people'[j])
          /\ IsStableRearrangement(people', people_list)]_vars

C3_Witness ==
    /\ pc = "done" /\ Len(people) >= 3
    /\ Key(people[1]) < Key(people[3])
    /\ \E i \in 1..(Len(people) - 1) :
          Key(people[i]) = Key(people[i + 1]) /\ people[i] # people[i + 1]

\* t is the first space-delimited token of name.
IsFirstToken(t, name) ==
    /\ \A i \in 1..Len(t) : t[i] # " "
    /\ Len(t) <= Len(name)
    /\ SubSeq(name, 1, Len(t)) = t
    /\ (Len(name) = Len(t) \/ name[Len(t) + 1] = " ")

\* C4: in a constructed registry use_first_name_in_plots is true iff the
\* participants' full names are pairwise distinct; the bars are labelled by
\* the first space-delimited token of the name when it is true and by the
\* full name when it is false.
C4_ShortNamesIffDistinct ==
    pc = "done" =>
        /\ use_first_name_in_plots <=>
              (\A i, j \in 1..Len(people) :
                  i # j => people[i].name # people[j].name)
        /\ ax_title # <<>> =>
              /\ Len(ax_bars) = Len(people)
              /\ \A i \in 1..Len(people) :
                    IF use_first_name_in_plots
                    THEN IsFirstToken(ax_bars[i].name, people[i].name)
                    ELSE ax_bars[i].name = people[i].name

\* Two participants both named "Alex Smith": both bars carry the full name.
C4_Witness ==
    /\ pc = "done" /\ ~use_first_name_in_plots /\ ax_title = Title_Total
    /\ \E i, j \in 1..Len(ax_bars) :
          /\ i # j
          /\ ax_bars[i].name = Name_AlexSmith
          /\ ax_bars[j].name = Name_AlexSmith

---------------------------------------------------------------------------
(* generate_person_from_race_nubmer: the two fetches and what is read      *)
(* from the documents they return.                                          *)

\* class MightHikeLocation (two of its members)
Wye_Valley     == 20439
Jurassic_Coast == 20440

base_url ==
    <<"h", "t", "t", "p", "s", ":", "/", "/", "r", "e", "s", "u", "l", "t", "s",
      ".", "r", "e", "s", "u", "l", "t", "s", "b", "a", "s", "e", ".", "n", "e",
      "t", "/">>

\* base_url + f"Search.aspx?CId=8&RId={race_location.value}&S={race_number}"
search_results_page_url(location, race_number) ==
    base_url
    \o <<"S", "e", "a", "r", "c", "h", ".", "a", "s", "p", "x", "?", "C", "I",
         "d", "=", "8", "&", "R", "I", "d", "=">>
    \o IntToStr(location) \o <<"&", "S", "=">> \o IntToStr(race_number)

\* What requests.get returns, as far as the code looks at it: a transport
\* failure, or a document with
\*   grdSearch     whether it holds <table id="ctl00_Content_Main_grdSearch">,
\*   anchors       the <a> elements of that table: text and href (if any),
\*   divSplitGrid  whether it holds <div id="ctl00_Content_Main_divSplitGrid">,
\*   table         whether that div holds a <table>,
\*   rows          the <tr> of that table, each the texts of its <td> cells.
TransportError ==
    [kind |-> "error", grdSearch |-> FALSE, anchors |-> <<>>,
     divSplitGrid |-> FALSE, table |-> FALSE, rows |-> <<>>]

SearchDocument(grdSearch, anchors) ==
    [kind |-> "page", grdSearch |-> grdSearch, anchors |-> anchors,
     divSplitGrid |-> FALSE, table |-> FALSE, rows |-> <<>>]

StatsDocument(divSplitGrid, table, rows) ==
    [kind |-> "page", grdSearch |-> FALSE, anchors |-> <<>>,
     divSplitGrid |-> divSplitGrid, table |-> table, rows |-> rows]

Anchor(text, href)  == [text |-> text, has_href |-> TRUE, href |-> href]
AnchorNoHref(text)  == [text |-> text, has_href |-> FALSE, href |-> <<>>]

HasHref(a) == a.has_href

\* Lines 380-390: [ok, person_name, href]; ok is FALSE where an exception is
\* raised (the get fails, find returns None, a [0] finds nothing).
locate(doc) ==
    LET with_href == SelectSeq(doc.anchors, HasHref)
    IN  IF doc.kind = "page" /\ doc.grdSearch /\ doc.anchors # <<>>
           /\ with_href # <<>>
        THEN [ok |-> TRUE, person_name |-> doc.anchors[1].text,
              href |-> with_href[1].href]
        ELSE [ok |-> FALSE, person_name |-> <<>>, href |-> <<>>]

Key_name        == <<"n", "a", "m", "e">>
Key_race_number == <<"r", "a", "c", "e", "_", "n", "u", "m", "b", "e", "r">>
Key_start       == <<"s", "t", "a", "r", "t">>
Key_pitstop_1   == <<"p", "i", "t", "s", "t", "o", "p", "_", "1">>
Key_pitstop_2   == <<"p", "i", "t", "s", "t", "o", "p", "_", "2">>
Key_pitstop_3   == <<"p", "i", "t", "s", "t", "o", "p", "_", "3">>
Key_finish      == <<"f", "i", "n", "i", "s", "h">>
Key_time_format == <<"t", "i", "m", "e", "_", "f", "o", "r", "m", "a", "t">>

\* The parameters of Person.__init__, and those without a default.
RequiredParams ==
    {Key_name, Key_race_number, Key_start, Key_pitstop_1, Key_pitstop_2,
     Key_pitstop_3, Key_finish}
PersonParams == RequiredParams \cup {Key_time_format}

\* key = str(...).lower().replace(" ", "_")
normalize_key(label) == Replace(Lower(label), " ", "_")

\* table.find_all("tr")[1:]
data_rows(rows) == IF rows = <<>> THEN <<>> ELSE Tail(rows)

RECURSIVE fill_data_dict_keep_first(_, _)
fill_data_dict_keep_first(d, rows) ==
    IF rows = <<>> THEN d
    ELSE LET key == normalize_key(Head(rows)[1])
             val == StrVal(Head(rows)[2])
         IN  fill_data_dict_keep_first(
                 [k \in DOMAIN d \cup {key} |->
                     IF k \in DOMAIN d THEN d[k] ELSE val],
                 Tail(rows))

\* The loop of lines 405-411: data_dict[key] = val for every row in turn.
RECURSIVE fill_data_dict(_, _)
fill_data_dict(d, rows) ==
    IF rows = <<>> THEN d
    ELSE LET key == normalize_key(Head(rows)[1])
             val == StrVal(Head(rows)[2])
         IN  fill_data_dict(
                 [k \in DOMAIN d \cup {key} |-> IF k = key THEN val ELSE d[k]],
                 Tail(rows))

\* Person(**data_dict): TypeError for a keyword Person.__init__ does not
\* have or for a missing one, otherwise Person.__init__.
person_from_dict(d) ==
    IF DOMAIN d \subseteq PersonParams /\ RequiredParams \subseteq DOMAIN d
    THEN Person(d[Key_name].s, d[Key_race_number], d[Key_start].s,
                d[Key_pitstop_1].s, d[Key_pitstop_2].s, d[Key_pitstop_3].s,
                d[Key_finish].s,
                IF Key_time_format \in DOMAIN d THEN d[Key_time_format].s
                ELSE DefaultTimeFormat)
    ELSE [ok |-> FALSE, person |-> NoPerson]

\* Lines 393-413: [ok, person]; ok is FALSE where an exception is raised
\* (the get fails, find returns None, a row has fewer than two cells,
\* Person(**data_dict) raises).
parse_stats_page(doc, name, race_number) ==
    LET stats_table_rows == data_rows(doc.rows)
        data_dict ==
            fill_data_dict((Key_name :> StrVal(name))
                               @@ (Key_race_number :> IntVal(race_number)),
                           stats_table_rows)
    IN  IF /\ doc.kind = "page" /\ doc.divSplitGrid /\ doc.table
           /\ \A i \in 1..Len(stats_table_rows) : Len(stats_table_rows[i]) >= 2
        THEN person_from_dict(data_dict)
        ELSE [ok |-> FALSE, person |-> NoPerson]

Fetch(stage, url, doc) == [stage |-> stage, url |-> url, response |-> doc]

\* The except clause of lines 419-422: RuntimeError leaves
\* generate_person_from_race_nubmer and, uncaught, the batch.
ExtractionFails ==
    /\ pc' = "failed"
    /\ raised' = "RuntimeError"
    /\ UNCHANGED <<idx, people_list, person_name, stats_page_url, stdout>>

\* A failed locate stage is retried.
SearchFetchRetrying(docs) ==
    /\ pc = "search"
    /\ \E doc \in docs :
          LET found == locate(doc)
          IN  /\ fetches' = Append(fetches,
                     Fetch("search",
                           search_results_page_url(race_location,
                                                   race_numbers[idx]), doc))
              /\ IF found.ok
                 THEN /\ person_name' = found.person_name
                      /\ stats_page_url' = base_url \o found.href
                      /\ pc' = "stats"
                 ELSE UNCHANGED <<person_name, stats_page_url, pc>>
              /\ UNCHANGED <<idx, people_list, stdout, raised>>
    /\ UNCHANGED <<race_numbers, race_location, fmt_vars, person_vars,
                   people_vars, plot_vars>>

\* Lines 380-390: the search fetch for race_numbers[idx] and the locate stage.
SearchFetch(docs) ==
    /\ pc = "search"
    /\ \E doc \in docs :
          LET found == locate(doc)
          IN  /\ fetches' = Append(fetches,
                     Fetch("search",
                           search_results_page_url(race_location,
                                                   race_numbers[idx]), doc))
              /\ IF found.ok
                 THEN /\ person_name' = found.person_name
                      /\ stats_page_url' = base_url \o found.href
                      /\ pc' = "stats"
                      /\ UNCHANGED <<idx, people_list, stdout, raised>>
                 ELSE ExtractionFails
    /\ UNCHANGED <<race_numbers, race_location, fmt_vars, person_vars,
                   people_vars, plot_vars>>

\* The next race number of the for loop of lines 447-449, or its end.
LoopAdvances ==
    /\ idx' = idx + 1
    /\ pc' = IF idx + 1 > Len(race_numbers) THEN "construct" ELSE "search"

\* A race number whose extraction fails is left out of the batch.
StatsFetchSkipping(docs) ==
    /\ pc = "stats"
    /\ \E doc \in docs :
          LET got == parse_stats_page(doc, person_name, race_numbers[idx])
          IN  /\ fetches' = Append(fetches, Fetch("stats", stats_page_url, doc))
              /\ IF got.ok
                 THEN /\ people_list' = Append(people_list, got.person)
                      /\ stdout' = Append(stdout,
                             [race_number |-> race_numbers[idx],
                              person_name |-> person_name])
                 ELSE UNCHANGED <<people_list, stdout>>
              /\ LoopAdvances
              /\ UNCHANGED <<person_name, stats_page_url, raised>>
    /\ UNCHANGED <<race_numbers, race_location, fmt_vars, person_vars,
                   people_vars, plot_vars>>

\* Lines 393-417 and 448-449: the detail fetch, the parse, the Person, the
\* printed line, and people_list.append(person).
StatsFetch(docs) ==
    /\ pc = "stats"
    /\ \E doc \in docs :
          LET got == parse_stats_page(doc, person_name, race_numbers[idx])
          IN  /\ fetches' = Append(fetches, Fetch("stats", stats_page_url, doc))
              /\ IF got.ok
                 THEN /\ people_list' = Append(people_list, got.person)
                      /\ stdout' = Append(stdout,
                             [race_number |-> race_numbers[idx],
                              person_name |-> person_name])
                      /\ LoopAdvances
                      /\ UNCHANGED <<person_name, stats_page_url, raised>>
                 ELSE ExtractionFails
    /\ UNCHANGED <<race_numbers, race_location, fmt_vars, person_vars,
                   people_vars, plot_vars>>

---------------------------------------------------------------------------
(* Documents the results website may return.                                *)

Href_1 == <<"m", "y", "r", "e", "s", "u", "l", "t", "s", ".", "a", "s", "p",
            "x", "?", "u", "i", "d", "=", "1">>
Href_2 == <<"m", "y", "r", "e", "s", "u", "l", "t", "s", ".", "a", "s", "p",
            "x", "?", "u", "i", "d", "=", "2">>

SearchInputs ==
    {TransportError,
     SearchDocument(FALSE, <<>>),
     SearchDocument(TRUE, <<>>),
     SearchDocument(TRUE, <<AnchorNoHref(Name_Bo)>>),
     SearchDocument(TRUE, <<Anchor(Name_AlexSmith, Href_1)>>),
     SearchDocument(TRUE, <<Anchor(Name_Bo, Href_2)>>),
     SearchDocument(TRUE, <<AnchorNoHref(Name_AlexJones),
                            Anchor(Name_Bo, Href_2)>>)}

Label_Start      == <<"S", "t", "a", "r", "t">>
Label_Pitstop_1  == <<"P", "i", "t", "s", "t", "o", "p", " ", "1">>
Label_Pitstop_2  == <<"P", "i", "t", "s", "t", "o", "p", " ", "2">>
Label_Pitstop_3  == <<"P", "i", "t", "s", "t", "o", "p", " ", "3">>
Label_Finish     == <<"F", "i", "n", "i", "s", "h">>
Label_FINISH     == <<"F", "I", "N", "I", "S", "H">>
Label_Name       == <<"N", "a", "m", "e">>
Label_RaceNumber == <<"R", "a", "c", "e", " ", "N", "u", "m", "b", "e", "r">>
Label_TimeFormat == <<"T", "i", "m", "e", " ", "F", "o", "r", "m", "a", "t">>
Label_Total      == <<"T", "o", "t", "a", "l">>

\* The header row holds <th> cells: no <td>.
HeaderRow == <<>>

\* The five rows of a timing table, the times written with `sep`.
SplitRows(sep, start, pitstop_1, pitstop_2, pitstop_3, finish) ==
    LET Time(hms) == FormatD(hms[1], 2, "0") \o <<sep>> \o FormatD(hms[2], 2, "0")
                         \o <<sep>> \o FormatD(hms[3], 2, "0")
    IN  <<<<Label_Start, Time(start)>>,
          <<Label_Pitstop_1, Time(pitstop_1)>>,
          <<Label_Pitstop_2, Time(pitstop_2)>>,
          <<Label_Pitstop_3, Time(pitstop_3)>>,
          <<Label_Finish, Time(finish)>>>>

Rows_643 == SplitRows(":", <<8, 0, 0>>, <<9, 15, 30>>, <<10, 40, 0>>,
                      <<12, 5, 10>>, <<13, 30, 0>>)
Rows_644 == SplitRows(":", <<8, 0, 0>>, <<9, 10, 0>>, <<10, 35, 0>>,
                      <<12, 0, 0>>, <<13, 20, 0>>)
Rows_643_dashes == SplitRows("-", <<8, 0, 0>>, <<9, 15, 30>>, <<10, 40, 0>>,
                             <<12, 5, 10>>, <<13, 30, 0>>)

TimingPage(rows) == StatsDocument(TRUE, TRUE, <<HeaderRow>> \o rows)

Page_643 == TimingPage(Rows_643)
Page_644 == TimingPage(Rows_644)
Page_643_no_finish == TimingPage(SubSeq(Rows_643, 1, 4))

\* The detail documents of a batch.
StatsInputs ==
    {TransportError,
     StatsDocument(FALSE, FALSE, <<>>),
     StatsDocument(TRUE, FALSE, <<>>),
     Page_643, Page_644, Page_643_no_finish}

RemoveAt(s, i) == SubSeq(s, 1, i - 1) \o SubSeq(s, i + 1, Len(s))

TimeFormat_dashes == <<"%", "H", "-", "%", "M", "-", "%", "S">>

\* One more row of the timing table.
ExtraRows ==
    {<<label, value>> :
        label \in {Label_Name, Label_RaceNumber, Label_TimeFormat, Label_Total,
                   Label_FINISH, Label_Start},
        value \in {TimeOfDay(13, 20, 0), <<"9", ":", "5", ":", "7">>, Name_Bo,
                   DefaultTimeFormat}}

\* The detail documents of one extraction: the page of 643 as it should be,
\* with a row missing, with one more row before or after the five, with a
\* third cell in every row, with a one-cell row, with the times written
\* with dashes (and a row that says so), and the documents without a table.
ExtractInputs ==
    StatsInputs
    \cup {StatsDocument(TRUE, TRUE, <<>>)}
    \cup {StatsDocument(TRUE, TRUE, RemoveAt(<<HeaderRow>> \o Rows_643, i)) :
             i \in 1..6}
    \cup {TimingPage(<<row>> \o Rows_643) : row \in ExtraRows}
    \cup {TimingPage(Rows_643 \o <<row>>) : row \in ExtraRows}
    \cup {TimingPage([i \in 1..5 |-> Rows_643[i] \o <<Label_Total>>])}
    \cup {TimingPage(Rows_643 \o << <<Label_Total>> >>)}
    \cup {TimingPage(Rows_643_dashes),
          TimingPage(Rows_643_dashes \o << <<Label_TimeFormat, TimeFormat_dashes>> >>)}

---------------------------------------------------------------------------
(* generate_people_from_race_nubmers(race_location, race_numbers)          *)

\* Race numbers of test().
RaceNumberInputs == {643, 644}

InitBatch(batches) ==
    /\ race_location \in {Wye_Valley, Jurassic_Coast}
    /\ race_numbers \in batches
    /\ idx = 1
    /\ pc = IF race_numbers = <<>> THEN "construct" ELSE "search"
    /\ people_list = <<>> /\ person_name = <<>> /\ stats_page_url = <<>>
    /\ fetches = <<>> /\ stdout = <<>> /\ raised = "none"
    /\ IdleFmt /\ IdlePerson /\ IdlePeople /\ IdlePlot

Init == InitBatch(SeqsUpTo(RaceNumberInputs, MaxBatch))

Next ==
    \/ SearchFetch(SearchInputs)
    \/ StatsFetch(StatsInputs)
    \/ PeopleInit

Spec == Init /\ [][Next]_vars

\* One race number, and every document of ExtractInputs.
InitExtract == InitBatch({<<n>> : n \in RaceNumberInputs})

NextExtract ==
    \/ SearchFetch(SearchInputs)
    \/ StatsFetch(ExtractInputs)
    \/ PeopleInit

SpecExtract == InitExtract /\ [][NextExtract]_vars

---------------------------------------------------------------------------
(* Claims about the batch (Spec).                                           *)

Last(s) == s[Len(s)]

\* The batch returned a registry / was left by an exception.
RegistryReturned == pc = "done"
BatchFailed      == pc = "failed"

\* C6: generate_people_from_race_nubmers returns a registry only when the
\* extraction of every listed race number succeeded, the registry then
\* holding exactly one participant per listed race number; once every
\* extraction has succeeded nothing but the registry follows; and when an
\* extraction fails (as for a detail page without the finish row) the call
\* fails with the extraction error and no registry is produced, whatever
\* was extracted before.
C6_RegistryIffAllExtracted ==
    /\ RegistryReturned =>
          /\ raised = "none"
          /\ Len(stdout) = Len(race_numbers)
          /\ \A i \in 1..Len(race_numbers) :
                stdout[i].race_number = race_numbers[i]
          /\ Len(people) = Len(race_numbers)
    /\ Len(stdout) = Len(race_numbers) =>
          (pc \in {"construct", "done"} /\ raised = "none")
    /\ (raised # "none" \/ BatchFailed) =>
          /\ raised = "RuntimeError" /\ BatchFailed
          /\ Len(stdout) < Len(race_numbers)
          /\ people = <<>> /\ use_first_name_in_plots = FALSE
    /\ (fetches # <<>> /\ Last(fetches).stage = "stats"
            /\ Last(fetches).response = Page_643_no_finish) => BatchFailed

\* The scenario of race numbers [643, 644]: both extracted, 644 ranked first.
C6_Witness ==
    /\ RegistryReturned /\ race_numbers = <<643, 644>>
    /\ people[1].race_number = IntVal(644) /\ people[2].race_number = IntVal(643)
    /\ Key(people[1]) = 5 * 3600 + 20 * 60 /\ Key(people[2]) = 5 * 3600 + 30 * 60

\* The locate stage succeeds on a document: the search table is there and
\* holds an anchor with a link.
LocateSucceeds(doc) ==
    /\ doc.kind = "page" /\ doc.grdSearch
    /\ \E i \in 1..Len(doc.anchors) : doc.anchors[i].has_href

FirstHref(doc) ==
    doc.anchors[CHOOSE i \in 1..Len(doc.anchors) :
                    /\ doc.anchors[i].has_href
                    /\ \A j \in 1..(i - 1) : ~doc.anchors[j].has_href].href

SearchesIn(log) == Cardinality({k \in 1..Len(log) : log[k].stage = "search"})

\* C9: the fetches form a strictly sequential trace.  Every step issues at
\* most one fetch.  A search fetch is for the next race number of the list,
\* in list order, and is issued only when every earlier race number was
\* extracted with its two fetches.  A detail fetch directly follows the
\* search fetch of the same race number, whose locate stage succeeded, and
\* goes to the link found there.  So no entry of the list gets more than
\* two fetches.  Once a race number has failed no fetch is ever issued.
C9_SequentialFetches ==
    [][/\ raised # "none" => fetches' = fetches
       /\ fetches' # fetches =>
             /\ Len(fetches') = Len(fetches) + 1
             /\ SubSeq(fetches', 1, Len(fetches)) = fetches
             /\ Len(fetches') <= 2 * Len(race_numbers)
             /\ LET f == Last(fetches')
                    j == Len(stdout) + 1
                IN  IF f.stage = "search"
                    THEN /\ j <= Len(race_numbers)
                         /\ f.url = search_results_page_url(race_location,
                                                            race_numbers[j])
                         /\ SearchesIn(fetches) = j - 1
                         /\ Len(fetches) = 2 * (j - 1)
                         /\ (fetches # <<>> => Last(fetches).stage = "stats")
                    ELSE /\ f.stage = "stats"
                         /\ fetches # <<>>
                         /\ Last(fetches).stage = "search"
                         /\ Last(fetches).url =
                                search_results_page_url(race_location,
                                                        race_numbers[j])
                         /\ LocateSucceeds(Last(fetches).response)
                         /\ f.url = base_url \o FirstHref(Last(fetches).response)
      ]_vars

\* A third fetch follows a completed first race number, and a failure ends it.
C9_Witness ==
    /\ Len(race_numbers) = 2 /\ Len(fetches) = 3 /\ BatchFailed
    /\ fetches[1].stage = "search" /\ fetches[2].stage = "stats"
    /\ fetches[3].stage = "search"

---------------------------------------------------------------------------
(* Claims about one extraction (SpecExtract).                               *)

FiveFields ==
    {Key_start, Key_pitstop_1, Key_pitstop_2, Key_pitstop_3, Key_finish}

\* The detail document of the extraction, once fetched.
DetailFetched == fetches # <<>> /\ Last(fetches).stage = "stats"
DetailPage    == Last(fetches).response
SearchPage    == fetches[1].response

\* The rows of the timing table after the header row, when each has its two
\* cells.
ReadableRows(doc) ==
    /\ doc.kind = "page" /\ doc.divSplitGrid /\ doc.table
    /\ \A i \in 2..Len(doc.rows) : Len(doc.rows[i]) >= 2

RowsLabelled(doc, key) ==
    {i \in 2..Len(doc.rows) : normalize_key(doc.rows[i][1]) = key}

HasRow(doc, key) == RowsLabelled(doc, key) # {}

Max(S) == CHOOSE x \in S : \A y \in S : y <= x

\* The value of the last row labelled key.
LastValue(doc, key) == doc.rows[Max(RowsLabelled(doc, key))][2]

ParticipantReturned == Len(stdout) = 1

\* C7: a Participant is returned only when the detail page yielded all five
\* fields (labels lower-cased, spaces replaced by underscores) and each
\* value parses as HH:MM:SS; any failure (a field missing or malformed, the
\* search table, anchor or timing table absent, a fetch failing) produces
\* no Participant and raises the one unified extraction error.
C7_AtomicExtraction ==
    /\ ParticipantReturned =>
          /\ DetailFetched /\ ReadableRows(DetailPage)
          /\ LocateSucceeds(SearchPage)
          /\ \A key \in FiveFields :
                /\ HasRow(DetailPage, key)
                /\ strptime(LastValue(DetailPage, key), DefaultTimeFormat).ok
    /\ (~ParticipantReturned /\ pc \notin {"search", "stats"}) =>
          /\ BatchFailed /\ raised = "RuntimeError"
          /\ people_list = <<>> /\ people = <<>>

\* C10: the Participant is assembled from every (label, value) row, without
\* an allow-list.  A detail page with the five required rows and a row whose
\* normalised label is no parameter of Person fails the extraction.  In a
\* Participant that is returned, a row labelled name or race_number replaces
\* the identity taken from the search page, and of several rows with one
\* label the last row's value is the one used.
C10_EveryRowAssembled ==
    /\ (/\ DetailFetched /\ ReadableRows(DetailPage)
        /\ \A key \in FiveFields : HasRow(DetailPage, key)
        /\ \E i \in 2..Len(DetailPage.rows) :
              normalize_key(DetailPage.rows[i][1]) \notin PersonParams)
       => (BatchFailed /\ raised = "RuntimeError" /\ people_list = <<>>)
    /\ ParticipantReturned =>
          LET p   == people_list[1]
              fmt == IF HasRow(DetailPage, Key_time_format)
                     THEN LastValue(DetailPage, Key_time_format)
                     ELSE DefaultTimeFormat
              Used(key) == strptime(LastValue(DetailPage, key), fmt).t
          IN  /\ p.name = IF HasRow(DetailPage, Key_name)
                          THEN LastValue(DetailPage, Key_name)
                          ELSE SearchPage.anchors[1].text
              /\ p.race_number =
                     IF HasRow(DetailPage, Key_race_number)
                     THEN StrVal(LastValue(DetailPage, Key_race_number))
                     ELSE IntVal(race_numbers[1])
              /\ p.start = Used(Key_start)
              /\ p.pitstop_1 = Used(Key_pitstop_1)
              /\ p.pitstop_2 = Used(Key_pitstop_2)
              /\ p.pitstop_3 = Used(Key_pitstop_3)
              /\ p.finish = Used(Key_finish)

\* A Name row after the five replaced the name of the search page, and the
\* later of two finish rows was used.
C10_Witness ==
    /\ ParticipantReturned /\ DetailFetched
    /\ \/ /\ HasRow(DetailPage, Key_name)
          /\ people_list[1].name = Name_Bo
          /\ SearchPage.anchors[1].text = Name_AlexSmith
       \/ /\ Cardinality(RowsLabelled(DetailPage, Key_finish)) = 2
          /\ people_list[1].finish = 13 * 3600 + 20 * 60
          /\ DetailPage.rows[6][2] = TimeOfDay(13, 30, 0)

====
